---- MODULE Spec2Model ----
(***************************************************************************)
(* Model of the two data servers of portfolio-optimizer-agent:             *)
(*   src/quantitative_server.py  get_stock_prices, get_crypto_prices,      *)
(*                               get_bond_prices, get_gold_prices          *)
(*   src/qualitative_server.py   get_exchange_rate, get_fear_greed_index,  *)
(*                               _interpret_fear_greed                     *)
(* The servers keep no state between calls.  A state of the model is the   *)
(* last call: which operation ran, what load_portfolio() and the upstream  *)
(* providers gave it, and what it returned (or that it raised).            *)
(* upstream is the sequence of what each provider request of the call did: *)
(* one history() per instrument, or the one HTTP request.                  *)
(*                                                                         *)
(* Python values are modelled as follows.                                  *)
(*   - the outcome of evaluating a piece of code is Ok(v) or Raise(msg);   *)
(*   - a float (numpy float64 from pandas, or a JSON number) is a record   *)
(*     [k, n, d]: k = "num" is the rational n/d (d > 0), k = "inf",        *)
(*     "-inf", "nan" are the IEEE specials, k = "null" is JSON null/None;  *)
(*   - a dict is a function whose DOMAIN is its set of keys;               *)
(*   - source string literals in Korean are written in ASCII.              *)
(***************************************************************************)
EXTENDS Integers, Sequences, FiniteSets, TLC

VARIABLES op, portfolio, upstream, reply

vars == <<op, portfolio, upstream, reply>>

(***************************************************************************)
(* Bounds of the model.                                                    *)
(***************************************************************************)
\* prices of a series are 0..MaxPrice
MaxPrice == 2
\* a price history has at most MaxSeriesLen rows
MaxSeriesLen == 6
\* batch calls over several instruments: prices 0..MaxBatchPrice
MaxBatchPrice == 1
\* batch calls over several instruments: at most MaxBatchLen rows each
MaxBatchLen == 1
\* the sentiment provider returns at most MaxReadings readings
MaxReadings == 7

(***************************************************************************)
(* Outcomes of Python evaluation.                                          *)
(***************************************************************************)
Ok(v) == [exc |-> FALSE, val |-> v]

Raise(msg) == [exc |-> TRUE, val |-> msg]

(***************************************************************************)
(* Floats.                                                                 *)
(***************************************************************************)
Num(n, d) == [k |-> "num", n |-> n, d |-> d]

Inf == [k |-> "inf", n |-> 0, d |-> 1]

NegInf == [k |-> "-inf", n |-> 0, d |-> 1]

NaN == [k |-> "nan", n |-> 0, d |-> 1]

Null == [k |-> "null", n |-> 0, d |-> 1]

IsFinite(x) == x.k = "num"

\* x - y on float64 (only finite operands occur: both come from the series)
FSub(x, y) == Num(x.n * y.d - y.n * x.d, x.d * y.d)

\* x / y on numpy float64: division by zero does not raise, it gives
\* inf, -inf or nan (with a RuntimeWarning)
FDiv(x, y) ==
    IF ~IsFinite(x) \/ ~IsFinite(y) THEN NaN
    ELSE IF y.n = 0
         THEN (IF x.n = 0 THEN NaN ELSE IF x.n > 0 THEN Inf ELSE NegInf)
         ELSE IF y.n > 0 THEN Num(x.n * y.d, x.d * y.n)
                         ELSE Num(-(x.n * y.d), x.d * (-y.n))

\* x * 100
FMul100(x) == IF IsFinite(x) THEN Num(x.n * 100, x.d) ELSE x

\* floor of a/b for b > 0, also for negative a
FloorDiv(a, b) == IF a >= 0 THEN a \div b ELSE -(((-a) + b - 1) \div b)

\* the integer nearest to a/b (b > 0), ties to the even one
RoundHalfEven(a, b) ==
    LET q == FloorDiv(a, b)
        r == a - q * b
    IN  IF 2 * r < b THEN q
        ELSE IF 2 * r > b THEN q + 1
        ELSE IF q % 2 = 0 THEN q ELSE q + 1

\* round(x, 2): a float with two decimals, kept as hundredths n/100;
\* inf and nan round to themselves, None raises TypeError
Round2(x) ==
    IF x.k = "null" THEN Raise("TypeError")
    ELSE IF IsFinite(x) THEN Ok(Num(RoundHalfEven(x.n * 100, x.d), 100))
    ELSE Ok(x)

\* round((current - ref) / ref * 100, 2)
PctChange(current, ref) == Round2(FMul100(FDiv(FSub(current, ref), ref)))

(***************************************************************************)
(* pandas: hist["Close"].iloc[i] on a column of Len(close) rows.           *)
(***************************************************************************)
Iloc(close, i) ==
    IF i >= 0
    THEN (IF i < Len(close) THEN Ok(close[i + 1]) ELSE Raise("IndexError"))
    ELSE (IF -i <= Len(close) THEN Ok(close[Len(close) + i + 1])
                              ELSE Raise("IndexError"))

\* a dict lookup d.get(key, default)
DictGet(d, key, default) == IF key \in DOMAIN d THEN d[key] ELSE default

\* the first raised outcome of a sequence of outcomes evaluated in order
FirstRaise(rs) ==
    rs[CHOOSE i \in 1..Len(rs) : rs[i].exc /\ \A j \in 1..(i - 1) : ~rs[j].exc]

AnyRaise(rs) == \E i \in 1..Len(rs) : rs[i].exc

(***************************************************************************)
(* Source string literals.                                                 *)
(***************************************************************************)
\* "데이터 없음"
NoDataMsg == "no data"

\* "환율 데이터 없음"
NoRateMsg == "no exchange rate data"

(***************************************************************************)
(* get_stock_prices                                                        *)
(***************************************************************************)
StockPrevDayAlways(hist, current) == Iloc(hist, -2)

StockPrevDay(hist, current) ==
    IF Len(hist) > 1 THEN Iloc(hist, -2) ELSE current

StockWeekAgoSixth(hist) ==
    IF Len(hist) >= 6 THEN Iloc(hist, -6) ELSE Iloc(hist, 0)

StockWeekAgo(hist) ==
    IF Len(hist) >= 5 THEN Iloc(hist, -5) ELSE Iloc(hist, 0)

\* the body of the try block for one stock; yfetch is what
\* yf.Ticker(symbol).history(period="1mo") does
StockTry(stock, yfetch) ==
    IF yfetch.kind = "raise" THEN Raise(yfetch.msg)
    ELSE LET hist == yfetch.close IN
         IF Len(hist) = 0
         THEN Ok([symbol |-> stock.symbol, error |-> NoDataMsg])
         ELSE LET current == Iloc(hist, -1)
                  prev_day == StockPrevDay(hist, current)
                  week_ago == StockWeekAgo(hist)
                  month_ago == Iloc(hist, 0)
                  refs == <<current, prev_day, week_ago, month_ago>>
              IN  IF AnyRaise(refs) THEN FirstRaise(refs)
                  ELSE LET price == Round2(current.val)
                           d1 == PctChange(current.val, prev_day.val)
                           w1 == PctChange(current.val, week_ago.val)
                           m1 == PctChange(current.val, month_ago.val)
                           fields == <<price, d1, w1, m1>>
                       IN  IF AnyRaise(fields) THEN FirstRaise(fields)
                           ELSE Ok([symbol |-> stock.symbol,
                                    name |-> stock.name,
                                    price |-> price.val,
                                    change_1d_pct |-> d1.val,
                                    change_1w_pct |-> w1.val,
                                    change_1m_pct |-> m1.val])

\* one iteration of the loop: try ... except Exception as e
StockItem(stock, yfetch) ==
    LET r == StockTry(stock, yfetch)
    IN  IF r.exc THEN [symbol |-> stock.symbol, error |-> r.val] ELSE r.val

\* a loop in which a failing instrument ends the loop
StockLoopAbort(stocks, yf) ==
    LET bad == {k \in 1..Len(stocks) : StockTry(stocks[k], yf[k]).exc}
        n == IF bad = {} THEN Len(stocks)
             ELSE (CHOOSE k \in bad : \A j \in bad : k <= j) - 1
    IN  [k \in 1..n |-> StockItem(stocks[k], yf[k])]

\* the for loop: results, one append per configured stock
StockLoop(stocks, yf) ==
    [k \in 1..Len(stocks) |-> StockItem(stocks[k], yf[k])]

\* load is what load_portfolio() does, yf[k] what the k-th history() does
get_stock_prices(load, yf) ==
    IF load.kind = "raise" THEN Raise(load.msg)
    ELSE LET stocks == DictGet(load.doc, "stocks", <<>>)
         IN  Ok([stocks |-> StockLoop(stocks, yf)])

(***************************************************************************)
(* get_bond_prices                                                         *)
(***************************************************************************)
BondPrevDay(hist, current) ==
    IF Len(hist) > 1 THEN Iloc(hist, -2) ELSE current

BondWeekAgo(hist) ==
    IF Len(hist) >= 5 THEN Iloc(hist, -5) ELSE Iloc(hist, 0)

\* the body of the try block for one bond; yfetch is what
\* yf.Ticker(symbol).history(period="1mo") does
BondTry(bond, yfetch) ==
    IF yfetch.kind = "raise" THEN Raise(yfetch.msg)
    ELSE LET hist == yfetch.close IN
         IF Len(hist) = 0
         THEN Ok([symbol |-> bond.symbol, error |-> NoDataMsg])
         ELSE LET current == Iloc(hist, -1)
                  prev_day == BondPrevDay(hist, current)
                  week_ago == BondWeekAgo(hist)
                  month_ago == Iloc(hist, 0)
                  refs == <<current, prev_day, week_ago, month_ago>>
              IN  IF AnyRaise(refs) THEN FirstRaise(refs)
                  ELSE LET price == Round2(current.val)
                           d1 == PctChange(current.val, prev_day.val)
                           w1 == PctChange(current.val, week_ago.val)
                           m1 == PctChange(current.val, month_ago.val)
                           fields == <<price, d1, w1, m1>>
                       IN  IF AnyRaise(fields) THEN FirstRaise(fields)
                           ELSE Ok([symbol |-> bond.symbol,
                                    name |-> bond.name,
                                    price |-> price.val,
                                    change_1d_pct |-> d1.val,
                                    change_1w_pct |-> w1.val,
                                    change_1m_pct |-> m1.val])

\* one iteration of the loop: try ... except Exception as e
BondItem(bond, yfetch) ==
    LET r == BondTry(bond, yfetch)
    IN  IF r.exc THEN [symbol |-> bond.symbol, error |-> r.val] ELSE r.val

\* the for loop: results, one append per configured bond instrument
BondLoop(bonds, yf) ==
    [k \in 1..Len(bonds) |-> BondItem(bonds[k], yf[k])]

\* load is what load_portfolio() does, yf[k] what the k-th history() does
get_bond_prices(load, yf) ==
    IF load.kind = "raise" THEN Raise(load.msg)
    ELSE LET bonds == DictGet(load.doc, "bonds", <<>>)
         IN  Ok([bonds |-> BondLoop(bonds, yf)])

(***************************************************************************)
(* get_gold_prices                                                         *)
(***************************************************************************)
GoldPrevDay(hist, current) ==
    IF Len(hist) > 1 THEN Iloc(hist, -2) ELSE current

GoldWeekAgo(hist) ==
    IF Len(hist) >= 5 THEN Iloc(hist, -5) ELSE Iloc(hist, 0)

\* the body of the try block for one gold; yfetch is what
\* yf.Ticker(symbol).history(period="1mo") does
GoldTry(gold, yfetch) ==
    IF yfetch.kind = "raise" THEN Raise(yfetch.msg)
    ELSE LET hist == yfetch.close IN
         IF Len(hist) = 0
         THEN Ok([symbol |-> gold.symbol, error |-> NoDataMsg])
         ELSE LET current == Iloc(hist, -1)
                  prev_day == GoldPrevDay(hist, current)
                  week_ago == GoldWeekAgo(hist)
                  month_ago == Iloc(hist, 0)
                  refs == <<current, prev_day, week_ago, month_ago>>
              IN  IF AnyRaise(refs) THEN FirstRaise(refs)
                  ELSE LET price == Round2(current.val)
                           d1 == PctChange(current.val, prev_day.val)
                           w1 == PctChange(current.val, week_ago.val)
                           m1 == PctChange(current.val, month_ago.val)
                           fields == <<price, d1, w1, m1>>
                       IN  IF AnyRaise(fields) THEN FirstRaise(fields)
                           ELSE Ok([symbol |-> gold.symbol,
                                    name |-> gold.name,
                                    price |-> price.val,
                                    change_1d_pct |-> d1.val,
                                    change_1w_pct |-> w1.val,
                                    change_1m_pct |-> m1.val])

\* one iteration of the loop: try ... except Exception as e
GoldItem(gold, yfetch) ==
    LET r == GoldTry(gold, yfetch)
    IN  IF r.exc THEN [symbol |-> gold.symbol, error |-> r.val] ELSE r.val

\* the for loop: results, one append per configured gold instrument
GoldLoop(golds, yf) ==
    [k \in 1..Len(golds) |-> GoldItem(golds[k], yf[k])]

\* load is what load_portfolio() does, yf[k] what the k-th history() does
get_gold_prices(load, yf) ==
    IF load.kind = "raise" THEN Raise(load.msg)
    ELSE LET golds == DictGet(load.doc, "gold", <<>>)
         IN  Ok([gold |-> GoldLoop(golds, yf)])

(***************************************************************************)
(* get_crypto_prices                                                       *)
(***************************************************************************)
\* a present coin yields its entry, or raises: coin_data.get on a payload
\* entry that is no mapping, round() of a null change
CoinPresent(crypto, coin_data) ==
    IF coin_data.t # "dict" THEN Raise("AttributeError")
    ELSE LET usd == DictGet(coin_data.f, "usd", Num(0, 1))
             c24 == Round2(DictGet(coin_data.f, "usd_24h_change", Num(0, 1)))
             c7 == Round2(DictGet(coin_data.f, "usd_7d_change", Num(0, 1)))
             fields == <<c24, c7>>
         IN  IF AnyRaise(fields) THEN FirstRaise(fields)
             ELSE Ok([symbol |-> crypto.symbol,
                      name |-> crypto.name,
                      price |-> usd,
                      change_24h_pct |-> c24.val,
                      change_7d_pct |-> c7.val])

\* an absent coin reported with a price next to its error
CoinItemErrorWithPrice(crypto, data) ==
    IF data.t = "null" THEN Raise("TypeError")
    ELSE IF data.t = "dict" /\ crypto.symbol \in DOMAIN data.f
         THEN CoinPresent(crypto, data.f[crypto.symbol])
         ELSE Ok([symbol |-> crypto.symbol, price |-> Num(0, 1),
                  error |-> NoDataMsg])

\* one iteration of the loop over the configured coins; data is the
\* decoded payload: `coin_id in data` raises on null, is False on a list
\* of other things
CoinItem(crypto, data) ==
    IF data.t = "null" THEN Raise("TypeError")
    ELSE IF data.t = "dict" /\ crypto.symbol \in DOMAIN data.f
         THEN CoinPresent(crypto, data.f[crypto.symbol])
         ELSE Ok([symbol |-> crypto.symbol, error |-> NoDataMsg])

\* a loop that skips the coins the payload does not hold
CryptoLoopSkipAbsent(cryptos, data) ==
    LET items == [k \in 1..Len(cryptos) |-> CoinItem(cryptos[k], data)]
    IN  IF AnyRaise(items) THEN FirstRaise(items)
        ELSE Ok(SelectSeq([k \in 1..Len(cryptos) |-> items[k].val],
                          LAMBDA e : "error" \notin DOMAIN e))

\* the for loop: the first raising iteration leaves the loop (and the try)
CryptoLoop(cryptos, data) ==
    LET items == [k \in 1..Len(cryptos) |-> CoinItem(cryptos[k], data)]
    IN  IF AnyRaise(items) THEN FirstRaise(items)
        ELSE Ok([k \in 1..Len(cryptos) |-> items[k].val])

\* the try block: cg is what requests.get(...) and resp.json() do
CryptoTry(cryptos, cg) ==
    IF cg.kind = "raise" THEN Raise(cg.msg)
    ELSE LET results == CryptoLoop(cryptos, cg.data)
         IN  IF results.exc THEN results ELSE Ok([crypto |-> results.val])

get_crypto_prices(load, cg) ==
    IF load.kind = "raise" THEN Raise(load.msg)
    ELSE LET cryptos == DictGet(load.doc, "crypto", <<>>)
         IN  IF Len(cryptos) = 0 THEN Ok([crypto |-> <<>>])
             ELSE LET r == CryptoTry(cryptos, cg)
                  IN  IF r.exc THEN Ok([crypto |-> <<>>, error |-> r.val])
                      ELSE r

(***************************************************************************)
(* get_exchange_rate                                                       *)
(***************************************************************************)
RatePrevDay(hist, current) ==
    IF Len(hist) > 1 THEN Iloc(hist, -2) ELSE current

RateWeekAgo(hist) ==
    IF Len(hist) >= 5 THEN Iloc(hist, -5) ELSE Iloc(hist, 0)

\* the body of the try block; yfetch is what
\* yf.Ticker("USDKRW=X").history(period="1mo") does
RateTry(yfetch) ==
    IF yfetch.kind = "raise" THEN Raise(yfetch.msg)
    ELSE LET hist == yfetch.close IN
         IF Len(hist) = 0
         THEN Ok([error |-> NoRateMsg])
         ELSE LET current == Iloc(hist, -1)
                  prev_day == RatePrevDay(hist, current)
                  week_ago == RateWeekAgo(hist)
                  month_ago == Iloc(hist, 0)
                  refs == <<current, prev_day, week_ago, month_ago>>
              IN  IF AnyRaise(refs) THEN FirstRaise(refs)
                  ELSE LET rate == Round2(current.val)
                           d1 == PctChange(current.val, prev_day.val)
                           w1 == PctChange(current.val, week_ago.val)
                           m1 == PctChange(current.val, month_ago.val)
                           fields == <<rate, d1, w1, m1>>
                       IN  IF AnyRaise(fields) THEN FirstRaise(fields)
                           ELSE Ok([pair |-> "USD/KRW",
                                    rate |-> rate.val,
                                    change_1d_pct |-> d1.val,
                                    change_1w_pct |-> w1.val,
                                    change_1m_pct |-> m1.val])

\* an except clause that lets the exception through
RateNoExcept(yfetch) == RateTry(yfetch)

get_exchange_rate(yfetch) ==
    LET r == RateTry(yfetch)
    IN  IF r.exc THEN Ok([error |-> r.val]) ELSE r

(***************************************************************************)
(* get_fear_greed_index, _interpret_fear_greed                             *)
(***************************************************************************)
\* the index runs from 0 to MaxScore
MaxScore == 100

\* "극단적 공포 - 매수 기회일 수 있음"
ExtremeFear == "extreme fear - may be a buying opportunity"

\* "공포 - 시장 불안정"
Fear == "fear - unstable market"

\* "중립 - 균형 잡힌 상태"
Neutral == "neutral - balanced"

\* "탐욕 - 주의 필요"
Greed == "greed - caution needed"

\* "극단적 탐욕 - 과열 상태, 조정 가능성"
ExtremeGreed == "extreme greed - overheated, correction possible"

\* thresholds compared with < instead of <=
InterpretStrict(score) ==
    IF score < 25 THEN ExtremeFear
    ELSE IF score < 45 THEN Fear
    ELSE IF score < 55 THEN Neutral
    ELSE IF score < 75 THEN Greed
    ELSE ExtremeGreed

_interpret_fear_greed(score) ==
    IF score <= 25 THEN ExtremeFear
    ELSE IF score <= 45 THEN Fear
    ELSE IF score <= 55 THEN Neutral
    ELSE IF score <= 75 THEN Greed
    ELSE ExtremeGreed

\* strings are sequences of characters
Digits == <<"0", "1", "2", "3", "4", "5", "6", "7", "8", "9">>

DigitValue(c) == (CHOOSE i \in 1..10 : Digits[i] = c) - 1

IsDigit(c) == \E i \in 1..10 : Digits[i] = c

RECURSIVE DecimalValue(_)
DecimalValue(chars) ==
    IF Len(chars) = 0 THEN 0
    ELSE 10 * DecimalValue(SubSeq(chars, 1, Len(chars) - 1))
         + DigitValue(chars[Len(chars)])

\* int(v): of an int the int itself, of a string of decimal digits its
\* value; ValueError on any other string, TypeError on None
PyInt(v) ==
    IF v.t = "int" THEN Ok(v.i)
    ELSE IF v.t = "null" THEN Raise("TypeError")
    ELSE IF Len(v.s) > 0 /\ \A i \in 1..Len(v.s) : IsDigit(v.s[i])
         THEN Ok(DecimalValue(v.s))
         ELSE Raise("ValueError")

PyIntValue(i) == [t |-> "int", i |-> i, s |-> <<>>]

PyStr(chars) == [t |-> "str", i |-> 0, s |-> chars]

PyNone == [t |-> "null", i |-> 0, s |-> <<>>]

\* d[key]: KeyError when the key is missing
DictItem(d, key) == IF key \in DOMAIN d THEN Ok(d[key]) ELSE Raise("KeyError")

\* int(fng_data[i]["value"]), i counted from 0
ReadingValue(fng_data, i) ==
    LET v == DictItem(fng_data[i + 1], "value")
    IN  IF v.exc THEN v ELSE PyInt(v.val)

FngYesterdayFirst(fng_data, score) ==
    IF Len(fng_data) > 1 THEN ReadingValue(fng_data, 0) ELSE score

FngYesterday(fng_data, score) ==
    IF Len(fng_data) > 1 THEN ReadingValue(fng_data, 1) ELSE score

FngWeekAgo(fng_data, score) ==
    IF Len(fng_data) > 6 THEN ReadingValue(fng_data, 6) ELSE score

\* the body of the try block; resp is what requests.get(url) and
\* resp.json() do
FngTry(resp) ==
    IF resp.kind = "raise" THEN Raise(resp.msg)
    ELSE IF resp.data.t # "dict" THEN Raise("AttributeError")
    ELSE LET fng_data == DictGet(resp.data.f, "data", <<>>) IN
         IF Len(fng_data) = 0 THEN Ok([error |-> NoDataMsg])
         ELSE LET current == fng_data[1]
                  score == PyInt(DictGet(current, "value", PyIntValue(0)))
                  rating == DictGet(current, "value_classification",
                                    PyStr(<<"u", "n", "k", "n", "o", "w", "n">>))
                  yesterday == FngYesterday(fng_data, score)
                  week_ago == FngWeekAgo(fng_data, score)
                  parts == <<score, yesterday, week_ago>>
              IN  IF AnyRaise(parts) THEN FirstRaise(parts)
                  ELSE Ok([score |-> score.val,
                           rating |-> rating,
                           yesterday |-> yesterday.val,
                           one_week_ago |-> week_ago.val,
                           interpretation |-> _interpret_fear_greed(score.val)])

get_fear_greed_index(resp) ==
    LET r == FngTry(resp)
    IN  IF r.exc THEN Ok([error |-> r.val]) ELSE r

(***************************************************************************)
(* Inputs.                                                                 *)
(***************************************************************************)
Instruments ==
    { [symbol |-> "AAA", name |-> "Alpha"],
      [symbol |-> "BBB", name |-> "Beta"],
      [symbol |-> "CCC", name |-> "Gamma"] }

\* the lists over a set S of instruments, each instrument at most once
ListsOver(S) ==
    UNION { { s \in [1..Cardinality(T) -> T] :
                \A i, j \in DOMAIN s : i # j => s[i] # s[j] } : T \in SUBSET S }

InstrumentLists == ListsOver(Instruments)

SingleLists == { <<i>> : i \in Instruments }

EmptyDict == [x \in {} |-> 0]

\* portfolio.yaml as load_portfolio() finds it, for the asset class key:
\* unreadable, without the key, or with a list under the key
Loads(key, Lists) ==
    { [kind |-> "raise", msg |-> "FileNotFoundError", doc |-> EmptyDict] }
    \cup { [kind |-> "ok", msg |-> "", doc |-> EmptyDict] }
    \cup { [kind |-> "ok", msg |-> "", doc |-> (key :> l)] : l \in Lists }

ConfiguredList(load, key) ==
    IF load.kind = "ok" THEN DictGet(load.doc, key, <<>>) ELSE <<>>

SeriesUpTo(maxLen, maxPrice) ==
    UNION { [1..n -> {Num(p, 1) : p \in 0..maxPrice}] : n \in 0..maxLen }

\* what one history() call can do: raise, or return a frame (maybe empty)
Fetches(maxLen, maxPrice) ==
    { [kind |-> "raise", msg |-> "ConnectionError", close |-> <<>>] }
    \cup { [kind |-> "hist", msg |-> "", close |-> s] :
             s \in SeriesUpTo(maxLen, maxPrice) }

BatchFetches == Fetches(MaxBatchLen, MaxBatchPrice)

SeriesFetches == Fetches(MaxSeriesLen, MaxPrice)

\* one coin's entry in the CoinGecko payload: a mapping holding some of
\* usd, usd_24h_change, usd_7d_change (a change may be null), or no mapping
CoinDatas ==
    { [t |-> "dict", f |-> u @@ a @@ b] :
        u \in { EmptyDict, "usd" :> Num(50000, 1) },
        a \in { EmptyDict, "usd_24h_change" :> Null,
                "usd_24h_change" :> Num(1234, 1000) },
        b \in { EmptyDict, "usd_7d_change" :> Null,
                "usd_7d_change" :> Num(-5678, 1000) } }
    \cup { [t |-> "num", f |-> EmptyDict] }

\* what requests.get(...).json() can do for the requested ids: raise
\* (no connection, no JSON), or decode to null, a list, or a mapping
\* holding some of the ids
CoinGeckoResponses(ids) ==
    { [kind |-> "raise", msg |-> m, data |-> [t |-> "null", f |-> EmptyDict]] :
        m \in {"ConnectionError", "JSONDecodeError"} }
    \cup { [kind |-> "json", msg |-> "", data |-> [t |-> x, f |-> EmptyDict]] :
             x \in {"null", "list"} }
    \cup { [kind |-> "json", msg |-> "", data |-> [t |-> "dict", f |-> g]] :
             g \in UNION { [S -> CoinDatas] : S \in SUBSET ids } }

SymbolsOf(list) == { list[k].symbol : k \in 1..Len(list) }

RECURSIVE DecimalString(_)
DecimalString(n) ==
    IF n < 10 THEN <<Digits[n + 1]>>
    ELSE Append(DecimalString(n \div 10), Digits[(n % 10) + 1])

\* readings of the sentiment provider: two well-formed ones and one
\* without a value
FewReadings ==
    { ("value" :> PyStr(<<"2", "5">>))
        @@ ("value_classification" :> PyStr(<<"F", "e", "a", "r">>)),
      ("value" :> PyStr(<<"7", "6">>)),
      ("value_classification" :> PyStr(<<"F", "e", "a", "r">>)) }

\* readings with every score 0..MaxScore, and with values int() rejects
AllReadings ==
    { ("value" :> v) :
        v \in { PyStr(DecimalString(n)) : n \in 0..MaxScore }
              \cup { PyStr(<<"x">>), PyStr(<<>>), PyNone, PyIntValue(50) } }

FngLists ==
    UNION { [1..n -> FewReadings] : n \in 0..MaxReadings }
    \cup { <<r>> : r \in AllReadings }

\* what requests.get(url).json() can do: raise, or decode to a list, to a
\* mapping without "data", or to a mapping with a list under "data"
FngResponses ==
    { [kind |-> "raise", msg |-> m, data |-> [t |-> "list", f |-> EmptyDict]] :
        m \in {"ConnectionError", "JSONDecodeError"} }
    \cup { [kind |-> "json", msg |-> "", data |-> [t |-> "list", f |-> EmptyDict]],
           [kind |-> "json", msg |-> "", data |-> [t |-> "dict", f |-> EmptyDict]] }
    \cup { [kind |-> "json", msg |-> "", data |-> [t |-> "dict", f |-> ("data" :> l)]] :
             l \in FngLists }

\* the history operations are called with every portfolio list and short
\* histories, and with a one-instrument list and long histories
Environments ==
    { [lists |-> InstrumentLists, fetches |-> BatchFetches],
      [lists |-> SingleLists, fetches |-> SeriesFetches] }

NoPortfolio == [kind |-> "ok", msg |-> "", doc |-> EmptyDict]

(***************************************************************************)
(* The calls.  The servers answer one tool call at a time: a call is taken *)
(* when none is outstanding, runs to its return (or raises), and Deliver   *)
(* hands the outcome to the caller.                                        *)
(***************************************************************************)
Init ==
    /\ op = "none"
    /\ portfolio = NoPortfolio
    /\ upstream = <<>>
    /\ reply = Ok(EmptyDict)

CallGetStockPrices ==
    /\ op = "none"
    /\ \E env \in Environments :
       \E load \in Loads("stocks", env.lists) :
         \E yf \in [1..Len(ConfiguredList(load, "stocks")) -> env.fetches] :
           /\ op' = "get_stock_prices"
           /\ portfolio' = load
           /\ upstream' = yf
           /\ reply' = get_stock_prices(load, yf)

CallGetBondPrices ==
    /\ op = "none"
    /\ \E env \in Environments :
       \E load \in Loads("bonds", env.lists) :
         \E yf \in [1..Len(ConfiguredList(load, "bonds")) -> env.fetches] :
           /\ op' = "get_bond_prices"
           /\ portfolio' = load
           /\ upstream' = yf
           /\ reply' = get_bond_prices(load, yf)

CallGetGoldPrices ==
    /\ op = "none"
    /\ \E env \in Environments :
       \E load \in Loads("gold", env.lists) :
         \E yf \in [1..Len(ConfiguredList(load, "gold")) -> env.fetches] :
           /\ op' = "get_gold_prices"
           /\ portfolio' = load
           /\ upstream' = yf
           /\ reply' = get_gold_prices(load, yf)

CallGetCryptoPrices ==
    /\ op = "none"
    /\ \E load \in Loads("crypto", InstrumentLists) :
         \E cg \in CoinGeckoResponses(SymbolsOf(ConfiguredList(load, "crypto"))) :
           /\ op' = "get_crypto_prices"
           /\ portfolio' = load
           /\ upstream' = <<cg>>
           /\ reply' = get_crypto_prices(load, cg)

CallGetExchangeRate ==
    /\ op = "none"
    /\ \E yfetch \in SeriesFetches :
         /\ op' = "get_exchange_rate"
         /\ portfolio' = NoPortfolio
         /\ upstream' = <<yfetch>>
         /\ reply' = get_exchange_rate(yfetch)

CallGetFearGreedIndex ==
    /\ op = "none"
    /\ \E resp \in FngResponses :
         /\ op' = "get_fear_greed_index"
         /\ portfolio' = NoPortfolio
         /\ upstream' = <<resp>>
         /\ reply' = get_fear_greed_index(resp)

Deliver ==
    /\ op # "none"
    /\ op' = "none"
    /\ portfolio' = NoPortfolio
    /\ upstream' = <<>>
    /\ reply' = Ok(EmptyDict)

Next ==
    \/ CallGetStockPrices
    \/ CallGetBondPrices
    \/ CallGetGoldPrices
    \/ CallGetCryptoPrices
    \/ CallGetExchangeRate
    \/ CallGetFearGreedIndex
    \/ Deliver

Spec == Init /\ [][Next]_vars

(***************************************************************************)
(* What the claims speak about, read off the state of the last call.       *)
(***************************************************************************)
HistoryOps == {"get_stock_prices", "get_bond_prices", "get_gold_prices"}

BatchOps == HistoryOps \cup {"get_crypto_prices"}

KeyOf(o) ==
    CASE o = "get_stock_prices" -> "stocks"
      [] o = "get_bond_prices" -> "bonds"
      [] o = "get_gold_prices" -> "gold"
      [] o = "get_crypto_prices" -> "crypto"

\* the configured instruments of the asset class of the call
Configured == ConfiguredList(portfolio, KeyOf(op))

\* what the one request of the call did (crypto, exchange rate, sentiment)
Response == upstream[1]

\* the list the call returned
Entries == reply.val[KeyOf(op)]

PopulatedFields ==
    {"symbol", "name", "price", "change_1d_pct", "change_1w_pct", "change_1m_pct"}

CryptoFields ==
    {"symbol", "name", "price", "change_24h_pct", "change_7d_pct"}

ErrorFields == {"symbol", "error"}

RateFields ==
    {"pair", "rate", "change_1d_pct", "change_1w_pct", "change_1m_pct"}

SnapshotFields ==
    {"score", "rating", "yesterday", "one_week_ago", "interpretation"}

\* the reply of operation o called with the one instrument i alone
Alone(o, i, yfetch) ==
    LET load == [kind |-> "ok", msg |-> "", doc |-> (KeyOf(o) :> <<i>>)]
    IN  CASE o = "get_stock_prices" -> get_stock_prices(load, <<yfetch>>)
          [] o = "get_bond_prices" -> get_bond_prices(load, <<yfetch>>)
          [] o = "get_gold_prices" -> get_gold_prices(load, <<yfetch>>)

\* the pairs <<history, record>> of the call: each fetched history with
\* the record the operation derived from it
MetricPairs ==
    IF op \in HistoryOps /\ portfolio.kind = "ok" /\ ~reply.exc
       /\ Len(Entries) = Len(Configured)
    THEN { <<upstream[k].close, Entries[k]>> :
             k \in { j \in 1..Len(Configured) : upstream[j].kind = "hist" } }
    ELSE IF op = "get_exchange_rate" /\ Response.kind = "hist" /\ ~reply.exc
         THEN { <<Response.close, reply.val>> }
         ELSE {}

Abs(x) == IF x < 0 THEN -x ELSE x

\* x is the percentage change from ref to cur (integers, ref > 0) to two
\* decimals: the hundredth nearest to (cur - ref) / ref * 100
IsPctOf(x, cur, ref) ==
    /\ x.k = "num"
    /\ x.d = 100
    /\ 2 * Abs(x.n * ref - (cur - ref) * 10000) <= ref

\* the record holds the three changes
HasChanges(rec) ==
    {"change_1d_pct", "change_1w_pct", "change_1m_pct"} \subseteq DOMAIN rec

\* C1: get_stock_prices, get_bond_prices and get_gold_prices return one
\* entry per configured instrument, in configuration order, entry k with
\* the symbol of instrument k; an instrument whose fetch raises or is
\* empty gets an error entry at its position, and every entry is the one
\* the instrument gets when it is called alone.
C1_OneEntryPerInstrument ==
    (op \in HistoryOps /\ portfolio.kind = "ok") =>
        /\ ~reply.exc
        /\ DOMAIN reply.val = {KeyOf(op)}
        /\ Len(Entries) = Len(Configured)
        /\ \A k \in 1..Len(Configured) :
             /\ Entries[k].symbol = Configured[k].symbol
             /\ (upstream[k].kind = "raise" \/ Len(upstream[k].close) = 0)
                  => DOMAIN Entries[k] = ErrorFields
             /\ Entries[k] = Alone(op, Configured[k], upstream[k]).val[KeyOf(op)][1]

\* three instruments, the fetch of the second raises, the others succeed
C1_Witness ==
    /\ op = "get_stock_prices"
    /\ portfolio.kind = "ok"
    /\ Len(Configured) = 3
    /\ upstream[1].kind = "hist" /\ Len(upstream[1].close) > 0
    /\ upstream[2].kind = "raise"
    /\ upstream[3].kind = "hist" /\ Len(upstream[3].close) > 0
    /\ ~reply.exc
    /\ Len(Entries) = 3
    /\ DOMAIN Entries[1] = PopulatedFields
    /\ DOMAIN Entries[2] = ErrorFields
    /\ DOMAIN Entries[3] = PopulatedFields

\* C2 as claimed: the 1-week reference is the element 5 positions before
\* the last when it exists (6 rows or more), else the first element; with
\* 6 rows it is the first row.  (Stated for series of positive values.)
C2_WeekRefFivePositionsBack ==
    \A pr \in MetricPairs :
        LET hist == pr[1]
            rec == pr[2]
            n == Len(hist)
            ref == IF n >= 6 THEN hist[n - 5] ELSE hist[1]
        IN  (n > 0 /\ \A i \in 1..n : hist[i].n > 0)
                => /\ HasChanges(rec)
                   /\ IsPctOf(rec.change_1w_pct, hist[n].n, ref.n)

\* C2 amended: the 1-week reference is the fifth row from the end (4
\* positions before the last) when the series has at least 5 rows, else
\* the first row; with 6 rows it is the second row (index 1).  The change
\* is the division by that reference: not finite when the reference is 0.
C2_WeekRefFifthFromEnd ==
    \A pr \in MetricPairs :
        LET hist == pr[1]
            rec == pr[2]
            n == Len(hist)
            ref == IF n >= 5 THEN hist[n - 4] ELSE hist[1]
        IN  n > 0 =>
              /\ HasChanges(rec)
              /\ ref.n > 0 => IsPctOf(rec.change_1w_pct, hist[n].n, ref.n)
              /\ ref.n = 0 => ~IsFinite(rec.change_1w_pct)
              /\ n = 6 /\ hist[2].n > 0
                   => IsPctOf(rec.change_1w_pct, hist[6].n, hist[2].n)

\* a stock history of 6 rows whose first two rows differ: the 1-week change
\* is the change from the second row, not from the first
C2_Witness ==
    /\ op = "get_stock_prices"
    /\ \E pr \in MetricPairs :
         /\ Len(pr[1]) = 6
         /\ pr[1][1].n = 1 /\ pr[1][2].n = 2 /\ pr[1][6].n = 2
         /\ HasChanges(pr[2])
         /\ pr[2].change_1w_pct = Num(0, 100)

\* C3 as claimed: when the reference selected for a horizon is 0 the item
\* is an error, and no returned record holds an infinite or NaN change.
C3_ZeroReferenceIsError ==
    \A pr \in MetricPairs :
        LET hist == pr[1]
            rec == pr[2]
            n == Len(hist)
            prev_day == IF n > 1 THEN hist[n - 1] ELSE hist[n]
            week_ago == IF n >= 5 THEN hist[n - 4] ELSE hist[1]
            month_ago == hist[1]
        IN  n > 0 =>
              /\ (prev_day.n = 0 \/ week_ago.n = 0 \/ month_ago.n = 0)
                   => "error" \in DOMAIN rec
              /\ HasChanges(rec) =>
                   /\ IsFinite(rec.change_1d_pct)
                   /\ IsFinite(rec.change_1w_pct)
                   /\ IsFinite(rec.change_1m_pct)

\* C4 as claimed: get_crypto_prices returns one entry per configured coin,
\* in configuration order, whatever the upstream does.
C4_CryptoListNeverShortened ==
    (op = "get_crypto_prices" /\ portfolio.kind = "ok") =>
        /\ ~reply.exc
        /\ Len(Entries) = Len(Configured)
        /\ \A k \in 1..Len(Configured) :
             Entries[k].symbol = Configured[k].symbol

\* the payload entry of a coin is a mapping whose changes are numbers
WellFormedCoin(coin_data) ==
    /\ coin_data.t = "dict"
    /\ \A f \in DOMAIN coin_data.f : coin_data.f[f].k = "num"

\* C5: when the payload is a mapping that omits some requested ids (its
\* other entries being well formed), the reply has an error entry for
\* exactly the omitted ids and a populated entry for every id present,
\* each at the position of its coin in the configuration.
C5_OmittedIdsAreErrors ==
    (/\ op = "get_crypto_prices"
     /\ portfolio.kind = "ok"
     /\ Response.kind = "json"
     /\ Response.data.t = "dict"
     /\ \A id \in DOMAIN Response.data.f : WellFormedCoin(Response.data.f[id]))
    =>  /\ ~reply.exc
        /\ DOMAIN reply.val = {"crypto"}
        /\ Len(Entries) = Len(Configured)
        /\ \A k \in 1..Len(Configured) :
             /\ Entries[k].symbol = Configured[k].symbol
             /\ Configured[k].symbol \notin DOMAIN Response.data.f
                  => DOMAIN Entries[k] = ErrorFields
             /\ Configured[k].symbol \in DOMAIN Response.data.f
                  => /\ "error" \notin DOMAIN Entries[k]
                     /\ "price" \in DOMAIN Entries[k]
                     /\ Entries[k].name = Configured[k].name

\* three coins, the payload holds the first and the third only
C5_Witness ==
    /\ op = "get_crypto_prices"
    /\ portfolio.kind = "ok"
    /\ Len(Configured) = 3
    /\ Response.kind = "json"
    /\ Response.data.t = "dict"
    /\ DOMAIN Response.data.f = {Configured[1].symbol, Configured[3].symbol}
    /\ \A id \in DOMAIN Response.data.f : WellFormedCoin(Response.data.f[id])
    /\ ~reply.exc
    /\ Len(Entries) = 3
    /\ "price" \in DOMAIN Entries[1]
    /\ DOMAIN Entries[2] = ErrorFields
    /\ "price" \in DOMAIN Entries[3]

C7_ShortSeriesPopulated ==
    \A pr \in MetricPairs :
        LET hist == pr[1]
            rec == pr[2]
            n == Len(hist)
        IN  (n \in 1..4 /\ \A i \in 1..n : hist[i].n # 0) =>
              /\ "error" \notin DOMAIN rec
              /\ HasChanges(rec)
              /\ IsPctOf(rec.change_1m_pct, hist[n].n, hist[1].n)
              /\ IsPctOf(rec.change_1w_pct, hist[n].n, hist[1].n)
              /\ rec.change_1w_pct = rec.change_1m_pct
              /\ n >= 2 => IsPctOf(rec.change_1d_pct, hist[n].n, hist[n - 1].n)
              /\ n = 1 => /\ rec.change_1d_pct = Num(0, 100)
                          /\ rec.change_1w_pct = Num(0, 100)
                          /\ rec.change_1m_pct = Num(0, 100)

\* the series 1, 1, 2: up 100% over the day and over week and month
C7_Witness ==
    \E pr \in MetricPairs :
        /\ Len(pr[1]) = 3
        /\ pr[1][1].n = 1 /\ pr[1][2].n = 1 /\ pr[1][3].n = 2
        /\ HasChanges(pr[2])
        /\ pr[2].change_1d_pct = Num(10000, 100)
        /\ pr[2].change_1w_pct = Num(10000, 100)
        /\ pr[2].change_1m_pct = Num(10000, 100)

\* C8: for every score 0..100 the interpretation is exactly one of five
\* buckets: extreme fear up to 25, fear 26..45, neutral 46..55, greed
\* 56..75, extreme greed 76..100; the interpretation field of
\* get_fear_greed_index is that bucket of the reported score.
C8_FearGreedBuckets ==
    (op = "get_fear_greed_index" /\ ~reply.exc /\ "score" \in DOMAIN reply.val
     /\ reply.val.score \in 0..MaxScore)
    =>  LET score == reply.val.score
            text == reply.val.interpretation
        IN  /\ text \in {ExtremeFear, Fear, Neutral, Greed, ExtremeGreed}
            /\ text = ExtremeFear <=> score \in 0..25
            /\ text = Fear <=> score \in 26..45
            /\ text = Neutral <=> score \in 46..55
            /\ text = Greed <=> score \in 56..75
            /\ text = ExtremeGreed <=> score \in 76..100

\* the boundary score 75 is reported as greed
C8_Witness ==
    /\ op = "get_fear_greed_index"
    /\ ~reply.exc
    /\ "score" \in DOMAIN reply.val
    /\ reply.val.score = 75
    /\ reply.val.interpretation = Greed

\* C9: with a readable portfolio of lists, each of the six operations
\* returns a mapping and raises nothing, whatever the upstream does;
\* get_exchange_rate and get_fear_greed_index return their complete
\* record or a mapping holding only an error.
C9_AlwaysAMapping ==
    (op # "none" /\ portfolio.kind = "ok") =>
        /\ ~reply.exc
        /\ op \in BatchOps => KeyOf(op) \in DOMAIN reply.val
        /\ op = "get_exchange_rate"
             => DOMAIN reply.val \in {RateFields, {"error"}}
        /\ op = "get_fear_greed_index"
             => DOMAIN reply.val \in {SnapshotFields, {"error"}}

\* the exchange-rate fetch raises and the reply holds only an error
C9_Witness ==
    /\ op = "get_exchange_rate"
    /\ Response.kind = "raise"
    /\ ~reply.exc
    /\ DOMAIN reply.val = {"error"}

\* the reading is a mapping whose value is the decimal string of a score
WellFormedReading(r) ==
    /\ "value" \in DOMAIN r
    /\ r["value"].t = "str"
    /\ \E n \in 0..MaxScore : DecimalString(n) = r["value"].s

\* the score a well-formed reading states
ScoreOf(r) == CHOOSE n \in 0..MaxScore : DecimalString(n) = r["value"].s

\* C10: given n readings, newest first: for n = 0 the reply is an error
\* record; for n >= 1 score is reading 0, yesterday is reading 1 when
\* n >= 2 and else equals score, one_week_ago is reading 6 when n >= 7
\* and else equals score.
C10_ReadingsByPosition ==
    (/\ op = "get_fear_greed_index"
     /\ Response.kind = "json"
     /\ Response.data.t = "dict"
     /\ "data" \in DOMAIN Response.data.f)
    =>  LET l == Response.data.f["data"]
            n == Len(l)
        IN  /\ ~reply.exc
            /\ n = 0 => DOMAIN reply.val = {"error"}
            /\ (/\ n >= 1 /\ WellFormedReading(l[1])
                /\ n >= 2 => WellFormedReading(l[2])
                /\ n >= 7 => WellFormedReading(l[7]))
               => /\ DOMAIN reply.val = SnapshotFields
                  /\ reply.val.score = ScoreOf(l[1])
                  /\ reply.val.yesterday
                       = (IF n >= 2 THEN ScoreOf(l[2]) ELSE ScoreOf(l[1]))
                  /\ reply.val.one_week_ago
                       = (IF n >= 7 THEN ScoreOf(l[7]) ELSE ScoreOf(l[1]))

\* seven readings: today 25, yesterday 76, a week ago 76
C10_Witness ==
    /\ op = "get_fear_greed_index"
    /\ Response.kind = "json"
    /\ Response.data.t = "dict"
    /\ "data" \in DOMAIN Response.data.f
    /\ Len(Response.data.f["data"]) = 7
    /\ ~reply.exc
    /\ DOMAIN reply.val = SnapshotFields
    /\ reply.val.score = 25
    /\ reply.val.yesterday = 76
    /\ reply.val.one_week_ago = 76

====
